---- MODULE Spec2Model ----
(***************************************************************************)
(* A model of the go-lirc connection engine: the lircReader line state     *)
(* machine, the read loop and the write/dispatch loop of Connection.Start, *)
(* and Connection.SendCommand.  Text is modelled at the level of           *)
(* characters: a line is a sequence of one-character strings, so that      *)
(* strings.Split, strings.Join, hex.DecodeString, strconv.ParseUint and    *)
(* strconv.Atoi are computed as the library computes them.                 *)
(***************************************************************************)
EXTENDS Integers, Sequences, FiniteSets, TLC

(***************************************************************************)
(* Bounds of the model.                                                    *)
(***************************************************************************)
\* the number of SendCommand invocations
MaxCalls == 2
\* the number of items (event lines, transactions, stray lines) the daemon sends
MaxItems == 2
\* the number of items of a script fed to the reader on its own
MaxScript == 2

(***************************************************************************)
(* Text literals.                                                          *)
(***************************************************************************)
BEGIN == <<"B", "E", "G", "I", "N">>
END == <<"E", "N", "D">>
SUCCESS == <<"S", "U", "C", "C", "E", "S", "S">>
ERROR == <<"E", "R", "R", "O", "R">>
DATA == <<"D", "A", "T", "A">>
SIGHUP == <<"S", "I", "G", "H", "U", "P">>
VERSION == <<"V", "E", "R", "S", "I", "O", "N">>
LIST == <<"L", "I", "S", "T">>
SEND_START == <<"S", "E", "N", "D", "_", "S", "T", "A", "R", "T">>
SEND_STOP == <<"S", "E", "N", "D", "_", "S", "T", "O", "P">>
DenonTuner == <<"D", "e", "n", "o", "n", "T", "u", "n", "e", "r">>
KEY_POWER == <<"K", "E", "Y", "_", "P", "O", "W", "E", "R">>
Television == <<"T", "e", "l", "e", "v", "i", "s", "i", "o", "n">>
VersionData == <<"0", ".", "1", "0", ".", "2">>
Space == " "
EmptyString == <<>>

(***************************************************************************)
(* Library functions, computed on sequences of characters.                 *)
(***************************************************************************)
DecDigits == <<"0", "1", "2", "3", "4", "5", "6", "7", "8", "9">>
HexLower == DecDigits \o <<"a", "b", "c", "d", "e", "f">>
HexUpper == DecDigits \o <<"A", "B", "C", "D", "E", "F">>

Range(s) == {s[i] : i \in DOMAIN s}

IndexOf(ch, table) == CHOOSE i \in DOMAIN table : table[i] = ch

IsHexDigit(ch) == ch \in Range(HexLower) \cup Range(HexUpper)

HexVal(ch) ==
  IF ch \in Range(HexLower) THEN IndexOf(ch, HexLower) - 1
  ELSE IndexOf(ch, HexUpper) - 1

IsDecDigit(ch) == ch \in Range(DecDigits)

DecVal(ch) == IndexOf(ch, DecDigits) - 1

\* strings.Split(line, " "): the fields between the separators; one more field
\* than there are separators, so one empty field for the empty line
Split(s) ==
  LET seps == {i \in DOMAIN s : s[i] = Space}
      n == Cardinality(seps)
      sep(k) == IF k = 0 THEN 0
                ELSE IF k = n + 1 THEN Len(s) + 1
                ELSE CHOOSE i \in seps : Cardinality({j \in seps : j < i}) = k - 1
  IN [k \in 1..(n + 1) |-> SubSeq(s, sep(k - 1) + 1, sep(k) - 1)]

\* strings.Join(tokens, " ")
RECURSIVE Join(_)
Join(tokens) ==
  IF tokens = <<>> THEN <<>>
  ELSE IF Len(tokens) = 1 THEN tokens[1]
  ELSE tokens[1] \o <<Space>> \o Join(Tail(tokens))

\* strings.Repeat("0", n)
Repeat0(n) == [i \in 1..n |-> "0"]

\* hex.DecodeString: the error result (odd length, or a byte that is no hex digit)
HexDecodeFails(h) ==
  \/ Len(h) % 2 = 1
  \/ \E i \in DOMAIN h : ~IsHexDigit(h[i])

\* hex.DecodeString: the bytes, one for every two digits
HexDecode(h) ==
  [i \in 1..(Len(h) \div 2) |-> 16 * HexVal(h[2 * i - 1]) + HexVal(h[2 * i])]

\* a big-endian read of the first two bytes
BigEndianUint16(c) == 256 * c[1] + c[2]

\* binary.LittleEndian.Uint16
LittleEndianUint16(c) == c[1] + 256 * c[2]

RECURSIVE DecValue(_)
DecValue(s) ==
  IF s = <<>> THEN 0 ELSE 10 * DecValue(SubSeq(s, 1, Len(s) - 1)) + DecVal(s[Len(s)])

\* strconv.ParseUint(s, 10, 0): the error result (no sign is accepted)
ParseUintFails(s) == s = <<>> \/ \E i \in DOMAIN s : ~IsDecDigit(s[i])

ParseUint(s) == DecValue(s)

\* strconv.Atoi: an optional sign, then at least one decimal digit
AtoiDigits(s) == IF s # <<>> /\ s[1] \in {"+", "-"} THEN Tail(s) ELSE s

AtoiFails(s) == ParseUintFails(AtoiDigits(s))

Atoi(s) ==
  IF s # <<>> /\ s[1] = "-" THEN 0 - DecValue(AtoiDigits(s)) ELSE DecValue(AtoiDigits(s))

(***************************************************************************)
(* Commands (commands.go) and the values of the package's types.           *)
(***************************************************************************)
Version == [type |-> "Version"]
List(RemoteControl) == [type |-> "List", RemoteControl |-> RemoteControl]
SendStart(RemoteControl, ButtonName) ==
  [type |-> "SendStart", RemoteControl |-> RemoteControl, ButtonName |-> ButtonName]
SendStop(RemoteControl, ButtonName) ==
  [type |-> "SendStop", RemoteControl |-> RemoteControl, ButtonName |-> ButtonName]

\* Command.EncodeCommand
EncodeCommand(command) ==
  CASE command.type = "Version" -> <<VERSION>>
    [] command.type = "List" ->
         IF command.RemoteControl = EmptyString THEN <<LIST>>
         ELSE <<LIST, command.RemoteControl>>
    [] command.type = "SendStart" ->
         <<SEND_START, command.RemoteControl, command.ButtonName>>
    [] command.type = "SendStop" ->
         <<SEND_STOP, command.RemoteControl, command.ButtonName>>

\* CommandReply{}
ZeroReply == [Command |-> EmptyString, Success |-> FALSE, Data |-> <<>>]

\* the error results of SendCommand
ErrNil == "nil"
ErrUnsuccessfulCommand == "lirc: unsuccessful command"
ErrUnexpectedReply == "unexpected reply command"
Canceled == "context canceled"
DeadlineExceeded == "context deadline exceeded"

(***************************************************************************)
(* lircReader: the line state machine.                                     *)
(***************************************************************************)
stateReceive == 0
stateReply == 1
stateMessage == 2
stateStatus == 3
stateDataStart == 4
stateDataLength == 5
stateData == 6
stateDataEnd == 7

\* newLircReader
NewLircReader ==
  [state |-> stateReceive, reply |-> ZeroReply, dataCount |-> 0, dataLength |-> 0]

\* lircReader.stateError: log, and back to stateReceive
stateError(r) == [r EXCEPT !.state = stateReceive]

\* what one call of read leaves: the reader, and what it is about to hand over.
\* out is "none", "event" (blocked in the select on r.events), "flush" (in
\* flushReply), "flushEnd" (in flushReply, r.state = stateReceive still to be
\* assigned) or "panic" (a run-time panic of the goroutine)
Result(r, out) == [r |-> r, out |-> out, event |-> <<>>]

\* the code of an event line, left-padded to 16 digits
PadCode(h) == IF Len(h) < 16 THEN Repeat0(16 - Len(h)) \o h ELSE h

\* read, case stateReceive
ReadReceive(r, line) ==
  IF line = BEGIN
  THEN Result([r EXCEPT !.state = stateReply, !.reply = ZeroReply,
                        !.dataCount = 0, !.dataLength = 0], "none")
  ELSE LET w == Split(line)
           h == PadCode(w[1])
       IN IF HexDecodeFails(h) THEN Result(stateError(r), "none")
          ELSE IF Len(HexDecode(h)) # 8 THEN Result(stateError(r), "none")
          ELSE IF Len(w) < 2 THEN Result(r, "panic")
          ELSE IF ParseUintFails(w[2]) THEN Result(stateError(r), "none")
          ELSE IF Len(w) < 4 THEN Result(r, "panic")
          ELSE [r |-> r, out |-> "event",
                event |-> [Code |-> LittleEndianUint16(HexDecode(h)),
                           RepeatCount |-> ParseUint(w[2]),
                           ButtonName |-> w[3],
                           RemoteControlName |-> w[4]]]

\* a reader that leaves the success flag of a new reply at its zero value
ReadReply_Mut(r, line) ==
  Result([r EXCEPT !.reply = [Command |-> line, Success |-> FALSE, Data |-> <<>>],
                   !.state = stateStatus], "none")

\* read, case stateReply
ReadReply(r, line) ==
  Result([r EXCEPT !.reply = [Command |-> line, Success |-> TRUE, Data |-> <<>>],
                   !.state = stateStatus], "none")

\* read, case stateStatus
ReadStatus(r, line) ==
  CASE line = SUCCESS -> Result([r EXCEPT !.state = stateDataStart], "none")
    [] line = ERROR ->
         Result([r EXCEPT !.reply.Success = FALSE, !.state = stateDataStart], "none")
    [] line = END -> Result([r EXCEPT !.state = stateReceive], "flush")
    [] OTHER -> Result(stateError(r), "none")

\* read, case stateDataStart
ReadDataStart(r, line) ==
  CASE line = DATA -> Result([r EXCEPT !.state = stateDataLength], "none")
    [] line = END -> Result([r EXCEPT !.state = stateReceive], "flush")
    [] OTHER -> Result(stateError(r), "none")

\* read, case stateDataLength; make([]string, 0, n) panics when n < 0
ReadDataLength(r, line) ==
  IF AtoiFails(line)
  THEN Result(stateError([r EXCEPT !.dataLength = 0]), "none")
  ELSE IF Atoi(line) < 0
  THEN Result([r EXCEPT !.dataLength = Atoi(line), !.state = stateData,
                        !.dataCount = 0], "panic")
  ELSE Result([r EXCEPT !.dataLength = Atoi(line), !.state = stateData,
                        !.dataCount = 0, !.reply.Data = <<>>], "none")

\* the test that ends stateData
DataComplete(dataCount, dataLength) == dataCount > dataLength

\* read, case stateData
ReadData(r, line) ==
  Result([r EXCEPT !.reply.Data = Append(r.reply.Data, line),
                   !.dataCount = r.dataCount + 1,
                   !.state = IF DataComplete(r.dataCount + 1, r.dataLength)
                             THEN stateDataEnd ELSE stateData], "none")

\* read, case stateDataEnd
ReadDataEnd(r, line) ==
  IF line # END THEN Result(stateError(r), "none") ELSE Result(r, "flushEnd")

\* lircReader.read, up to the point where it returns or blocks
Read(r, line) ==
  CASE r.state = stateReceive -> ReadReceive(r, line)
    [] r.state = stateReply -> ReadReply(r, line)
    [] r.state = stateStatus -> ReadStatus(r, line)
    [] r.state = stateDataStart -> ReadDataStart(r, line)
    [] r.state = stateDataLength -> ReadDataLength(r, line)
    [] r.state = stateData -> ReadData(r, line)
    [] r.state = stateDataEnd -> ReadDataEnd(r, line)
    [] OTHER -> Result(r, "none")

(***************************************************************************)
(* The state of one Connection, its Start, and the SendCommand calls.      *)
(***************************************************************************)
VARIABLES
  reader,     \* the lircReader: state, reply, dataCount, dataLength
  readPc,     \* read loop: idle, scan, event, flush, flushEnd, done, panic
  event,      \* the ButtonPress the read loop is handing to Events
  wire,       \* the lines the daemon has sent on the socket
  pos,        \* how many of them the Scanner has returned
  conn,       \* the socket: none, open, closed
  written,    \* the command lines written to the socket, each with its call
  sendingCh,  \* the dispatch loop's sendingCh: send (r.send) or nil
  writePc,    \* dispatch loop: idle, select, write, handoff, done
  cmd,        \* the call whose command the dispatch loop is writing
  gateReply,  \* the reply the dispatch loop is handing to r.reply
  cause,      \* the cause of the shared context; none while it is not done
  parentCtx,  \* the error of the context given to Start; none while it is not done
  closeErr,   \* what conn.Close() returned; none before it is called
  startPc,    \* Start: dial, wait, join, returned
  startRet,   \* what Start returned
  callPc,     \* each SendCommand call: idle, submit, await, returned
  callCmd,    \* its command
  callRet,    \* what it returned: reply and err, and in which select
  received,   \* the events the consumer of Events has received
  nItems,     \* how many items the daemon has sent
  answered,   \* how many written commands the daemon has answered
  repeatButton \* one RepeatButton call: where it is, its arguments and its results

vars == <<reader, readPc, event, wire, pos, conn, written, sendingCh, writePc, cmd,
          gateReply, cause, parentCtx, closeErr, startPc, startRet, callPc, callCmd, callRet,
          received, nItems, answered, repeatButton>>

readerVars == <<reader, readPc, event, pos>>
gateVars == <<sendingCh, writePc, cmd, gateReply, written>>
startVars == <<startPc, startRet, conn, parentCtx, closeErr>>
callVars == <<callPc, callCmd, callRet, repeatButton>>
daemonVars == <<wire, nItems, answered>>

Calls == 1..MaxCalls
Commands == {Version, List(DenonTuner)}
NoCall == 0
ReadError == "read error"
WriteError == "write error"
DialError == "cannot dial lircd connection"
CloseError == "error closing lircd connection"

\* no RepeatButton call has been made
NoRepeatButton ==
  [pc |-> "idle", remote |-> EmptyString, button |-> EmptyString,
   stop |-> "nil", err |-> "none", invoked |-> 0]

\* a goroutine panic ends the process: nothing runs after it
Alive == readPc # "panic"

\* a CancelCauseFunc that records the cause of its last call
CancelCause_Mut(old, err) == IF err = ErrNil THEN Canceled ELSE err

\* the CancelCauseFunc of context.WithCancelCause: the first cause stays, and a
\* nil cause is recorded as context.Canceled
CancelCause(old, err) ==
  IF old # "none" THEN old ELSE IF err = ErrNil THEN Canceled ELSE err

Init ==
  /\ reader = NewLircReader
  /\ readPc = "idle"
  /\ event = <<>>
  /\ wire = <<>>
  /\ pos = 0
  /\ conn = "none"
  /\ written = <<>>
  /\ sendingCh = "send"
  /\ writePc = "idle"
  /\ cmd = NoCall
  /\ gateReply = ZeroReply
  /\ cause = "none"
  /\ parentCtx = "none"
  /\ closeErr = "none"
  /\ startPc = "dial"
  /\ startRet = "none"
  /\ callPc = [c \in Calls |-> "idle"]
  /\ callCmd = [c \in Calls |-> Version]
  /\ callRet = [c \in Calls |-> [reply |-> ZeroReply, err |-> "none", at |-> "none"]]
  /\ received = <<>>
  /\ nItems = 0
  /\ answered = 0
  /\ repeatButton = NoRepeatButton

(***************************************************************************)
(* Connection.Start.                                                       *)
(***************************************************************************)
\* r.dialer(ctx) succeeds: the two loops are launched
StartDial ==
  /\ Alive /\ startPc = "dial"
  /\ startPc' = "wait" /\ conn' = "open"
  /\ readPc' = "scan" /\ writePc' = "select"
  /\ UNCHANGED <<reader, event, pos, sendingCh, cmd, gateReply, written, cause,
                 startRet, parentCtx, closeErr, callVars, received, daemonVars>>

\* r.dialer(ctx) fails: Start returns, and no loop is started
StartDialFails ==
  /\ Alive /\ startPc = "dial"
  /\ startPc' = "returned" /\ startRet' = DialError
  /\ UNCHANGED <<readerVars, gateVars, conn, cause, parentCtx, closeErr, callVars,
                 received, daemonVars>>

\* the context given to Start is cancelled from outside, by a plain cancel: the
\* context derived from it by context.WithCancelCause is done with the same cause,
\* context.Canceled, unless it was done already
ExternalCancel ==
  /\ Alive /\ startPc = "wait" /\ parentCtx = "none" /\ cause = "none"
  /\ parentCtx' = Canceled
  /\ cause' = Canceled
  /\ UNCHANGED <<readerVars, gateVars, startPc, startRet, conn, closeErr, callVars,
                 received, daemonVars>>

\* <-ctx.Done(), then conn.Close(), which may return an error
StartClose ==
  /\ Alive /\ startPc = "wait" /\ cause # "none"
  /\ conn' = "closed"
  /\ \E err \in {ErrNil, CloseError} : closeErr' = err
  /\ startPc' = "join"
  /\ UNCHANGED <<readerVars, gateVars, startRet, parentCtx, cause, callVars, received,
                 daemonVars>>

\* Start returning ctx.Err() translated as a clean end instead of context.Cause(ctx)
StartResult_Mut(err, c) ==
  IF err # ErrNil THEN CloseError ELSE IF c = Canceled THEN ErrNil ELSE c

\* what Start returns: the error of Close, or else context.Cause(ctx)
StartResult(err, c) == IF err # ErrNil THEN CloseError ELSE c

\* a Start without the deferred wg.Wait(): the return after a failed Close does
\* not wait for the loops
WgWait_Mut == closeErr # ErrNil \/ (readPc = "done" /\ writePc = "done")

\* wg.Wait() returns: both goroutines have run their deferred wg.Done()
WgWait == readPc = "done" /\ writePc = "done"

\* wg.Wait() (the deferred one, when Close failed), then the return
StartReturn ==
  /\ Alive /\ startPc = "join"
  /\ WgWait
  /\ startPc' = "returned" /\ startRet' = StartResult(closeErr, cause)
  /\ UNCHANGED <<readerVars, gateVars, conn, cause, parentCtx, closeErr, callVars,
                 received, daemonVars>>

(***************************************************************************)
(* The read loop of Start, and lircReader's two blocking handoffs.         *)
(***************************************************************************)
\* where the read loop is after a call of read
PcAfterRead(out) == IF out = "none" THEN "scan" ELSE out

\* a read loop whose reader hands events over from a goroutine of their own, and
\* goes on to the next line
ReadLine_Mut ==
  /\ Alive /\ readPc \in {"scan", "event"} /\ pos < Len(wire)
  /\ LET res == Read(reader, wire[pos + 1])
     IN /\ reader' = res.r
        /\ event' = res.event
        /\ readPc' = PcAfterRead(res.out)
  /\ pos' = pos + 1
  /\ UNCHANGED <<gateVars, startVars, cause, callVars, received, daemonVars>>

\* scanner.Scan() returns a line (one the Scanner has buffered, when the socket
\* is closed already) and reader.read(ctx, line) runs until it returns or blocks
ReadLine ==
  /\ Alive /\ readPc = "scan" /\ pos < Len(wire)
  /\ LET res == Read(reader, wire[pos + 1])
     IN /\ reader' = res.r
        /\ event' = res.event
        /\ readPc' = PcAfterRead(res.out)
  /\ pos' = pos + 1
  /\ UNCHANGED <<gateVars, startVars, cause, callVars, received, daemonVars>>

\* scanner.Scan() fails with an error that is not net.ErrClosed
ReadFails ==
  /\ Alive /\ readPc = "scan" /\ conn = "open"
  /\ readPc' = "failed"
  /\ UNCHANGED <<reader, event, pos, gateVars, startVars, cause, callVars, received,
                 daemonVars>>

\* cancel(err) with the error of the scanner, then the deferred cancel(nil)
ReadCancels ==
  /\ Alive /\ readPc = "failed"
  /\ cause' = CancelCause(CancelCause(cause, ReadError), ErrNil)
  /\ readPc' = "done"
  /\ UNCHANGED <<reader, event, pos, gateVars, startVars, callVars, received, daemonVars>>

\* scanner.Scan() ends with no error to report: the daemon closed the stream
\* (io.EOF), or Start closed the socket (net.ErrClosed); the deferred cancel(nil)
ReadEnds ==
  /\ Alive /\ readPc = "scan"
  /\ \/ conn = "closed"
     \/ conn = "open" /\ pos = Len(wire)
  /\ cause' = CancelCause(cause, ErrNil)
  /\ readPc' = "done"
  /\ UNCHANGED <<reader, event, pos, gateVars, startVars, callVars, received, daemonVars>>

\* case r.events <- event: the consumer of Events receives the event
EventsRecv ==
  /\ Alive /\ readPc = "event"
  /\ received' = Append(received, event)
  /\ readPc' = "scan"
  /\ UNCHANGED <<reader, event, pos, gateVars, startVars, cause, callVars, daemonVars>>

\* case <-ctx.Done() in read: the event is dropped
EventDropped ==
  /\ Alive /\ readPc = "event" /\ cause # "none"
  /\ readPc' = "scan"
  /\ UNCHANGED <<reader, event, pos, gateVars, startVars, cause, callVars, received,
                 daemonVars>>

\* the reader once flushReply has returned: after stateDataEnd, r.state = stateReceive
AfterFlush(r, pc) == IF pc = "flushEnd" THEN [r EXCEPT !.state = stateReceive] ELSE r

\* case <-ctx.Done() in flushReply: the reply is dropped
FlushDropped ==
  /\ Alive /\ readPc \in {"flush", "flushEnd"} /\ cause # "none"
  /\ reader' = AfterFlush(reader, readPc)
  /\ readPc' = "scan"
  /\ UNCHANGED <<event, pos, gateVars, startVars, cause, callVars, received, daemonVars>>

(***************************************************************************)
(* The write/dispatch loop of Start.                                       *)
(***************************************************************************)
\* the line written for a command
RawLine(command) == Join(EncodeCommand(command)) \o <<"\n">>

\* a dispatch loop that keeps accepting commands after a write
SendingChAfterWrite_Mut == "send"

\* sendingCh after a successful write
SendingChAfterWrite == "nil"

\* a dispatch loop without the SIGHUP check
IsNotification_Mut(reply) == FALSE

\* whether the dispatch loop routes a reply to r.reply
IsNotification(reply) == reply.Command = SIGHUP

\* case <-ctx.Done() of the outer select, then the deferred cancel(nil)
GateDone ==
  /\ Alive /\ writePc = "select" /\ cause # "none"
  /\ writePc' = "done"
  /\ cause' = CancelCause(cause, ErrNil)
  /\ UNCHANGED <<readerVars, sendingCh, cmd, gateReply, written, startVars, callVars,
                 received, daemonVars>>

\* a buffered r.send: the command of a call that gave up at submission is still
\* in the channel and the dispatch loop receives it
GateAccept_Buffered(c) ==
  /\ Alive /\ writePc = "select" /\ sendingCh = "send"
  /\ \/ callPc[c] = "submit"
     \/ callPc[c] = "returned" /\ callRet[c].at = "submit"
  /\ cmd' = c /\ writePc' = "write"
  /\ callPc' = [callPc EXCEPT ![c] = IF callPc[c] = "submit" THEN "await" ELSE callPc[c]]
  /\ UNCHANGED <<readerVars, sendingCh, gateReply, written, startVars, cause, callCmd,
                 callRet, repeatButton, received, daemonVars>>

\* a dispatch loop that receives from r.send whatever its sendingCh is
GateAccept_Mut(c) ==
  /\ Alive /\ writePc = "select" /\ callPc[c] = "submit"
  /\ cmd' = c /\ writePc' = "write"
  /\ callPc' = [callPc EXCEPT ![c] = "await"]
  /\ UNCHANGED <<readerVars, sendingCh, gateReply, written, startVars, cause, callCmd,
                 callRet, repeatButton, received, daemonVars>>

\* case cmd = <-sendingCh, with l.send <- command of a SendCommand call
GateAccept(c) ==
  /\ Alive /\ writePc = "select" /\ sendingCh = "send" /\ callPc[c] = "submit"
  /\ cmd' = c /\ writePc' = "write"
  /\ callPc' = [callPc EXCEPT ![c] = "await"]
  /\ UNCHANGED <<readerVars, sendingCh, gateReply, written, startVars, cause, callCmd,
                 callRet, repeatButton, received, daemonVars>>

\* io.WriteString(conn, raw) succeeds
GateWrite ==
  /\ Alive /\ writePc = "write" /\ conn = "open"
  /\ written' = Append(written, [call |-> cmd, line |-> RawLine(callCmd[cmd])])
  /\ sendingCh' = SendingChAfterWrite
  /\ writePc' = "select"
  /\ UNCHANGED <<readerVars, cmd, gateReply, startVars, cause, callVars, received,
                 daemonVars>>

\* io.WriteString(conn, raw) fails: cancel(err), return
GateWriteFails ==
  /\ Alive /\ writePc = "write"
  /\ cause' = CancelCause(CancelCause(cause, WriteError), ErrNil)
  /\ writePc' = "done"
  /\ UNCHANGED <<readerVars, sendingCh, cmd, gateReply, written, startVars, callVars,
                 received, daemonVars>>

\* case reply := <-repliesCh, with r.replies <- r.reply of flushReply
GateReply ==
  /\ Alive /\ writePc = "select" /\ readPc \in {"flush", "flushEnd"}
  /\ reader' = AfterFlush(reader, readPc)
  /\ readPc' = "scan"
  /\ gateReply' = reader.reply
  /\ writePc' = IF IsNotification(reader.reply) THEN "select" ELSE "handoff"
  /\ UNCHANGED <<event, pos, sendingCh, cmd, written, startVars, cause, callVars,
                 received, daemonVars>>

\* case <-ctx.Done() of the inner select, then the deferred cancel(nil)
GateHandoffDone ==
  /\ Alive /\ writePc = "handoff" /\ cause # "none"
  /\ writePc' = "done"
  /\ cause' = CancelCause(cause, ErrNil)
  /\ UNCHANGED <<readerVars, sendingCh, cmd, gateReply, written, startVars, callVars,
                 received, daemonVars>>

\* a SendCommand that looks at the success flag before the command name
ReplyError_Mut(reply, command) ==
  IF ~reply.Success THEN ErrUnsuccessfulCommand
  ELSE IF reply.Command # EncodeCommand(command)[1] THEN ErrUnexpectedReply
  ELSE ErrNil

\* the error SendCommand returns with a reply
ReplyError(reply, command) ==
  IF reply.Command # EncodeCommand(command)[1] THEN ErrUnexpectedReply
  ELSE IF ~reply.Success THEN ErrUnsuccessfulCommand
  ELSE ErrNil

\* case r.reply <- reply, with reply := <-l.reply of a SendCommand call
GateHandoff(c) ==
  /\ Alive /\ writePc = "handoff" /\ callPc[c] = "await"
  /\ callPc' = [callPc EXCEPT ![c] = "returned"]
  /\ callRet' = [callRet EXCEPT ![c] =
                   [reply |-> gateReply, err |-> ReplyError(gateReply, callCmd[c]),
                    at |-> "await"]]
  /\ sendingCh' = "send"
  /\ writePc' = "select"
  /\ UNCHANGED <<readerVars, cmd, gateReply, written, startVars, cause, callCmd,
                 repeatButton, received, daemonVars>>

(***************************************************************************)
(* Connection.SendCommand, one call at a time of its two selects.          *)
(***************************************************************************)
\* a caller invokes SendCommand(ctx, command); calls are numbered as they start
CallStart(c, command) ==
  /\ Alive /\ callPc[c] = "idle"
  /\ IF c = 1 THEN TRUE ELSE callPc[c - 1] # "idle"
  /\ callPc' = [callPc EXCEPT ![c] = "submit"]
  /\ callCmd' = [callCmd EXCEPT ![c] = command]
  /\ UNCHANGED <<readerVars, gateVars, startVars, cause, callRet, repeatButton, received,
                 daemonVars>>

\* a SendCommand that also watches the connection: once Start has returned it
\* returns what Start returned
CallReturnsCtxErr_Mut(c, err) ==
  /\ Alive /\ callPc[c] \in {"submit", "await"}
  /\ err = DeadlineExceeded => callPc[c] = "await"
  /\ callPc' = [callPc EXCEPT ![c] = "returned"]
  /\ callRet' = [callRet EXCEPT ![c] =
                   [reply |-> ZeroReply,
                    err |-> IF startPc = "returned" THEN startRet ELSE err,
                    at |-> callPc[c]]]
  /\ UNCHANGED <<readerVars, gateVars, startVars, cause, callCmd, repeatButton, received,
                 daemonVars>>

\* case <-ctx.Done() of either select: return CommandReply{}, ctx.Err().  Only the
\* call itself reads its context, and only in its selects, so the context ending
\* (the caller's cancellation, or past l.send the 10 second timeout of
\* context.WithTimeout) and the select taking that case are one step; a select
\* that takes its other case although the context is done is the run in which
\* the context ends later.
CallReturnsCtxErr(c, err) ==
  /\ Alive /\ callPc[c] \in {"submit", "await"}
  /\ err = DeadlineExceeded => callPc[c] = "await"
  /\ callPc' = [callPc EXCEPT ![c] = "returned"]
  /\ callRet' = [callRet EXCEPT ![c] =
                   [reply |-> ZeroReply, err |-> err, at |-> callPc[c]]]
  /\ UNCHANGED <<readerVars, gateVars, startVars, cause, callCmd, repeatButton, received,
                 daemonVars>>

(***************************************************************************)
(* The daemon at the other end of the socket.                              *)
(***************************************************************************)
EventCode == Repeat0(14) \o <<"2", "a">>
EventLine(repeat) == Join(<<EventCode, repeat, KEY_POWER, Television>>)

\* a transaction without data: BEGIN, the echoed command line, a status, END
ReplyItem(echo, status) == <<BEGIN, echo, status, END>>

\* a transaction with data: the count, the data lines, END
DataItem(echo, status, data) ==
  <<BEGIN, echo, status, DATA>> \o <<Join(<<>>) \o <<DecDigits[Len(data) + 1]>>>>
    \o data \o <<END>>

\* the notification of a reloaded configuration
SighupItem == <<BEGIN, SIGHUP, END>>

\* a line that is no event: its code is no hexadecimal number
BadHexLine == Join(<<<<"z", "z">>, <<"0">>, KEY_POWER, Television>>)

\* the command line the daemon echoes: the line without its newline
Echo(line) == SubSeq(line, 1, Len(line) - 1)

\* the transactions the daemon may answer a command line with
Answers(line) ==
  {ReplyItem(Echo(line), SUCCESS), ReplyItem(Echo(line), ERROR)}

\* what the daemon may send unasked
Unsolicited ==
  {SighupItem, <<EventLine(<<"0">>)>>, <<EmptyString>>}

\* the daemon answers the oldest command it has not answered
DaemonAnswers ==
  /\ Alive /\ conn = "open" /\ nItems < MaxItems /\ answered < Len(written)
  /\ \E item \in Answers(written[answered + 1].line) : wire' = wire \o item
  /\ answered' = answered + 1
  /\ nItems' = nItems + 1
  /\ UNCHANGED <<readerVars, gateVars, startVars, cause, callVars, received>>

\* the daemon sends an event line, a notification or a stray line
DaemonSends ==
  /\ Alive /\ conn = "open" /\ nItems < MaxItems
  /\ \E item \in Unsolicited : wire' = wire \o item
  /\ nItems' = nItems + 1
  /\ UNCHANGED <<readerVars, gateVars, startVars, cause, callVars, received, answered>>

(***************************************************************************)
(* The program.                                                            *)
(***************************************************************************)
Next ==
  \/ StartDial
  \/ StartDialFails
  \/ ExternalCancel
  \/ StartClose
  \/ StartReturn
  \/ ReadLine
  \/ ReadFails
  \/ ReadCancels
  \/ ReadEnds
  \/ EventsRecv
  \/ EventDropped
  \/ FlushDropped
  \/ GateDone
  \/ \E c \in Calls : GateAccept(c)
  \/ GateWrite
  \/ GateWriteFails
  \/ GateReply
  \/ GateHandoffDone
  \/ \E c \in Calls : GateHandoff(c)
  \/ \E c \in Calls, command \in Commands : CallStart(c, command)
  \/ \E c \in Calls, err \in {Canceled, DeadlineExceeded} : CallReturnsCtxErr(c, err)
  \/ DaemonAnswers
  \/ DaemonSends

Spec == Init /\ [][Next]_vars

(***************************************************************************)
(* The reader on its own: the read loop of a dialed connection is fed a    *)
(* script of lines, and both of the reader's channels have a receiver.     *)
(***************************************************************************)
\* an event line whose code has 18 digits, one whose repeat count is no decimal
\* number, one whose repeat count is negative, and lines of fewer than four fields
LongCodeLine == Join(<<Repeat0(16) \o <<"2", "a">>, <<"0">>, KEY_POWER, Television>>)
BadRepeatLine == Join(<<EventCode, <<"x">>, KEY_POWER, Television>>)
NegativeRepeatLine == Join(<<EventCode, <<"-", "1">>, KEY_POWER, Television>>)
OneFieldLine == <<"2", "a">>
ThreeFieldLine == Join(<<EventCode, <<"0">>, KEY_POWER>>)

\* event lines whose code has non-zero leading bytes, and whose code is short and
\* in upper case
LeadingCodeLine ==
  Join(<<<<"2", "a", "0", "1">> \o Repeat0(12), <<"1", "2">>, KEY_POWER, DenonTuner>>)
ShortCodeLine == Join(<<<<"2", "A">>, <<"7">>, KEY_POWER, Television>>)

\* a transaction cut short after DATA by a line that is no count of data lines
BadLengthItem(length) == <<BEGIN, VERSION, SUCCESS, DATA, length>>

\* transactions cut short by a line that is no marker: where a status is due,
\* where DATA or END is due, and where END is due after the data
Unexpected == <<"F", "O", "O">>
BadStatusItem == <<BEGIN, Join(<<LIST, DenonTuner>>), Unexpected>>
BadDataStartItem == <<BEGIN, Join(<<LIST, DenonTuner>>), ERROR, Unexpected>>
BadDataEndItem ==
  <<BEGIN, Join(<<LIST, DenonTuner>>), ERROR, DATA, <<"1">>, DenonTuner, Unexpected>>

ScriptItems ==
  {<<EventLine(<<"0">>)>>, <<EventLine(<<"1">>)>>, <<LeadingCodeLine>>, <<ShortCodeLine>>,
   BadStatusItem, BadDataStartItem, BadDataEndItem,
   BadLengthItem(<<"x">>), BadLengthItem(EmptyString), BadLengthItem(<<"-", "1">>),
   <<BadHexLine>>, <<LongCodeLine>>, <<BadRepeatLine>>, <<NegativeRepeatLine>>,
   <<EmptyString>>, <<OneFieldLine>>, <<ThreeFieldLine>>,
   SighupItem, <<BEGIN, VERSION, END>>,
   ReplyItem(VERSION, SUCCESS), ReplyItem(Join(<<LIST, DenonTuner>>), ERROR),
   DataItem(VERSION, SUCCESS, <<>>), DataItem(VERSION, SUCCESS, <<VersionData>>),
   DataItem(LIST, SUCCESS, <<DenonTuner, Television>>)}

RECURSIVE Flatten(_)
Flatten(items) == IF items = <<>> THEN <<>> ELSE Head(items) \o Flatten(Tail(items))

Scripts == {Flatten(sc) : sc \in UNION {[1..n -> ScriptItems] : n \in 0..MaxScript}}

ReaderInit ==
  /\ reader = NewLircReader
  /\ readPc = "scan"
  /\ event = <<>>
  /\ wire \in Scripts
  /\ pos = 0
  /\ conn = "open"
  /\ written = <<>>
  /\ sendingCh = "send"
  /\ writePc = "select"
  /\ cmd = NoCall
  /\ gateReply = ZeroReply
  /\ cause = "none"
  /\ parentCtx = "none"
  /\ closeErr = "none"
  /\ startPc = "wait"
  /\ startRet = "none"
  /\ callPc = [c \in Calls |-> "idle"]
  /\ callCmd = [c \in Calls |-> Version]
  /\ callRet = [c \in Calls |-> [reply |-> ZeroReply, err |-> "none", at |-> "none"]]
  /\ received = <<>>
  /\ nItems = 0
  /\ answered = 0
  /\ repeatButton = NoRepeatButton

\* case r.replies <- r.reply: the receiver of the replies channel takes the reply
RepliesRecv ==
  /\ Alive /\ readPc \in {"flush", "flushEnd"}
  /\ reader' = AfterFlush(reader, readPc)
  /\ readPc' = "scan"
  /\ gateReply' = reader.reply
  /\ UNCHANGED <<event, pos, sendingCh, writePc, cmd, written, startVars, cause,
                 callVars, received, daemonVars>>

ReaderNext == ReadLine \/ EventsRecv \/ RepliesRecv

ReaderSpec == ReaderInit /\ [][ReaderNext]_vars

\* the reader after the lines of a script, each handoff completed
RECURSIVE ReaderAfter(_)
ReaderAfter(lines) ==
  IF lines = <<>> THEN NewLircReader
  ELSE LET res == Read(ReaderAfter(SubSeq(lines, 1, Len(lines) - 1)), lines[Len(lines)])
       IN AfterFlush(res.r, res.out)

\* the reader was in stateReceive when it was given line i of the wire
IdleBefore(i) == ReaderAfter(SubSeq(wire, 1, i - 1)).state = stateReceive

(***************************************************************************)
(* Connection.RepeatButton: one call of it on the connection, with the     *)
(* invocations of the callback it returns.                                 *)
(***************************************************************************)
Remotes == {DenonTuner, Television}
Buttons == {KEY_POWER}

\* RepeatButton(ctx, remote, button) is called: l.SendCommand(ctx, SendStart{remote,
\* button}) is call 1
RepeatButtonCall(remote, button) ==
  /\ Alive /\ repeatButton.pc = "idle" /\ callPc[1] = "idle"
  /\ repeatButton' = [repeatButton EXCEPT !.pc = "start", !.remote = remote,
                                          !.button = button]
  /\ callPc' = [callPc EXCEPT ![1] = "submit"]
  /\ callCmd' = [callCmd EXCEPT ![1] = SendStart(remote, button)]
  /\ UNCHANGED <<readerVars, gateVars, startVars, cause, callRet, received, daemonVars>>

\* a RepeatButton that returns the callback whatever SendCommand returned
RepeatButtonResult_Mut(err) == [stop |-> "func", err |-> err]

\* what RepeatButton returns after SendCommand returned err
RepeatButtonResult(err) ==
  IF err # ErrNil THEN [stop |-> "nil", err |-> err] ELSE [stop |-> "func", err |-> ErrNil]

\* SendCommand has returned: RepeatButton returns
RepeatButtonReturn ==
  /\ Alive /\ repeatButton.pc = "start" /\ callPc[1] = "returned"
  /\ LET res == RepeatButtonResult(callRet[1].err)
     IN repeatButton' = [repeatButton EXCEPT !.pc = "returned", !.stop = res.stop,
                                             !.err = res.err]
  /\ UNCHANGED <<readerVars, gateVars, startVars, cause, callPc, callCmd, callRet,
                 received, daemonVars>>

\* the caller invokes the callback: l.SendCommand(ctx, SendStop{remote, button}) is
\* the next call
StopCall(c) ==
  /\ Alive /\ repeatButton.pc = "returned" /\ repeatButton.stop = "func"
  /\ c > 1 /\ callPc[c] = "idle" /\ callPc[c - 1] # "idle"
  /\ repeatButton' = [repeatButton EXCEPT !.invoked = @ + 1]
  /\ callPc' = [callPc EXCEPT ![c] = "submit"]
  /\ callCmd' = [callCmd EXCEPT ![c] = SendStop(repeatButton.remote, repeatButton.button)]
  /\ UNCHANGED <<readerVars, gateVars, startVars, cause, callRet, received, daemonVars>>

\* the daemon answers with the name of the command alone
NameAnswers(line) ==
  {ReplyItem(Split(Echo(line))[1], SUCCESS), ReplyItem(Split(Echo(line))[1], ERROR)}

DaemonAnswersName ==
  /\ Alive /\ conn = "open" /\ nItems < MaxItems /\ answered < Len(written)
  /\ \E item \in NameAnswers(written[answered + 1].line) : wire' = wire \o item
  /\ answered' = answered + 1
  /\ nItems' = nItems + 1
  /\ UNCHANGED <<readerVars, gateVars, startVars, cause, callVars, received>>

RepeatNext ==
  \/ StartDial
  \/ StartDialFails
  \/ ExternalCancel
  \/ StartClose
  \/ StartReturn
  \/ ReadLine
  \/ ReadFails
  \/ ReadCancels
  \/ ReadEnds
  \/ EventsRecv
  \/ EventDropped
  \/ FlushDropped
  \/ GateDone
  \/ \E c \in Calls : GateAccept(c)
  \/ GateWrite
  \/ GateWriteFails
  \/ GateReply
  \/ GateHandoffDone
  \/ \E c \in Calls : GateHandoff(c)
  \/ \E c \in Calls, err \in {Canceled, DeadlineExceeded} : CallReturnsCtxErr(c, err)
  \/ \E remote \in Remotes, button \in Buttons : RepeatButtonCall(remote, button)
  \/ RepeatButtonReturn
  \/ \E c \in Calls : StopCall(c)
  \/ DaemonAnswers
  \/ DaemonAnswersName
  \/ DaemonSends

RepeatSpec == Init /\ [][RepeatNext]_vars

(***************************************************************************)
(* Properties of the dispatch gate and of SendCommand.                     *)
(***************************************************************************)
\* the calls a reply has been handed to
Handed ==
  {c \in Calls : callPc[c] = "returned" /\ callRet[c].at = "await"
                 /\ callRet[c].err \in {ErrNil, ErrUnsuccessfulCommand, ErrUnexpectedReply}}

\* the calls whose command line has been written
Written == {written[i].call : i \in DOMAIN written}

\* C1: one command in flight.  Every command line written but the last belongs
\* to a call that is no longer awaiting its reply, no two calls await a reply at
\* once, and the lines written are at most one more than the replies handed to
\* callers.
C1_OneInFlight ==
  /\ \A i \in DOMAIN written : i < Len(written) => callPc[written[i].call] = "returned"
  /\ Cardinality({c \in Calls : callPc[c] = "await"}) <= 1
  /\ Len(written) <= Cardinality(Handed) + 1

\* C1: a second command has been written after the reply of the first was
\* handed over, and its call awaits its reply
C1_Witness ==
  /\ Len(written) = 2
  /\ written[1].call \in Handed
  /\ callPc[written[2].call] = "await"

\* a call returned its context's error after its command line was written
GaveUpAfterWrite(c) ==
  /\ callPc[c] = "returned" /\ callRet[c].at = "await"
  /\ callRet[c].err \in {Canceled, DeadlineExceeded}
  /\ c \in Written

\* a step of the reader, of the gate or of the consumer of Events
EngineStep ==
  \/ ReadLine
  \/ EventsRecv
  \/ GateReply
  \/ GateWrite
  \/ \E c \in Calls : GateAccept(c)
  \/ \E c \in Calls : GateHandoff(c)

\* C2: a call that gave up after its command was written does not affect later
\* calls.  While the connection is running and the daemon has answered every
\* command it received, a later call that waits to submit is not stuck: the
\* engine can take a step.
C2_LaterCallNotStuck ==
  \A a, b \in Calls :
    (/\ GaveUpAfterWrite(a)
     /\ callPc[b] = "submit"
     /\ startPc = "wait" /\ cause = "none" /\ Alive
     /\ answered = Len(written))
    => ENABLED EngineStep

\* C3: a command with arguments answered by the transaction that echoes its whole
\* line, then ERROR and END, returns ErrUnsuccessfulCommand.
C3_UnsuccessfulCommand ==
  \A c \in Calls :
    (/\ callPc[c] = "returned" /\ callRet[c].at = "await"
     /\ Len(EncodeCommand(callCmd[c])) > 1
     /\ callRet[c].reply = [Command |-> Echo(RawLine(callCmd[c])),
                            Success |-> FALSE, Data |-> <<>>])
    => callRet[c].err = ErrUnsuccessfulCommand

\* C6: a SIGHUP transaction is no reply.  The step in which the gate takes it
\* from the reader leaves the gate in its select, sendingCh as it was and every
\* call where it was; no reply named SIGHUP is ever held for a caller or
\* returned by SendCommand.
C6_SighupIsNoReply ==
  /\ [][(/\ writePc = "select" /\ readPc \in {"flush", "flushEnd"}
         /\ reader.reply.Command = SIGHUP /\ readPc' = "scan")
        => (/\ writePc' = "select" /\ sendingCh' = sendingCh
            /\ callPc' = callPc /\ callRet' = callRet)]_vars
  /\ [](/\ writePc = "handoff" => gateReply.Command # SIGHUP
        /\ \A c \in Calls : callRet[c].reply.Command # SIGHUP)

\* C6: the reader hands a SIGHUP transaction to the gate while a command is
\* outstanding
C6_Witness ==
  /\ writePc = "select" /\ readPc = "flush" /\ reader.reply.Command = SIGHUP
  /\ sendingCh = "nil"
  /\ \E c \in Calls : callPc[c] = "await" /\ c \in Written

(***************************************************************************)
(* Properties of Start.                                                    *)
(***************************************************************************)
\* C7, as claimed: after a cancellation from outside Start returns nil.
C7_ReturnsNil ==
  (startPc = "returned" /\ parentCtx # "none") => startRet = ErrNil

\* C7, amended: after a cancellation from outside Start returns context.Canceled,
\* the cause of a context cancelled without one, or the error of Close.
C7_ReturnsCanceled ==
  (startPc = "returned" /\ parentCtx # "none")
  => startRet = IF closeErr = ErrNil THEN Canceled ELSE CloseError

\* C7: Start has returned context.Canceled after a cancellation from outside
C7_Witness ==
  startPc = "returned" /\ parentCtx # "none" /\ startRet = Canceled

\* a step of Start or of its loops that is possible once the context is done
ShutdownStep ==
  \/ StartClose
  \/ StartReturn
  \/ ReadLine
  \/ ReadEnds
  \/ ReadCancels
  \/ EventDropped
  \/ FlushDropped
  \/ GateDone
  \/ GateHandoffDone
  \/ GateWrite
  \/ GateWriteFails

\* C8: once the shared context is done Start returns.  Until it has, Start or
\* one of its loops can take a step.
C8_ShutdownProceeds ==
  (conn # "none" /\ cause # "none" /\ startPc # "returned") => ENABLED ShutdownStep

\* C9, as claimed: Start returns the read or write error that was recorded.
C9_ReturnsFailure ==
  (startPc = "returned" /\ cause \in {ReadError, WriteError}) => startRet = cause

\* C9, amended: a read or write failure with no cause recorded yet records its
\* error as the cause, and the cause first recorded is never replaced; when it is
\* a read or write error both loops have ended when Start returns, and Start
\* returns it unless Close failed, in which case Start returns the error of Close.
C9_FirstCauseWins ==
  /\ [][cause # "none" => cause' = cause]_vars
  /\ [][(cause = "none" /\ readPc = "failed" /\ readPc' = "done")
        => cause' = ReadError]_vars
  /\ [][(cause = "none" /\ writePc = "write" /\ writePc' = "done")
        => cause' = WriteError]_vars
  /\ []((startPc = "returned" /\ cause \in {ReadError, WriteError})
        => (/\ readPc = "done" /\ writePc = "done"
            /\ startRet = IF closeErr = ErrNil THEN cause ELSE CloseError))

\* C9: Start has returned a write error
C9_Witness ==
  startPc = "returned" /\ startRet = WriteError /\ cause = WriteError

(***************************************************************************)
(* Properties of the reader.                                               *)
(***************************************************************************)
\* a transaction with data as the wire protocol frames it: BEGIN, a name, a
\* status, DATA, a count n, n data lines, END
IsDataTransaction(t) ==
  /\ Len(t) >= 6
  /\ t[1] = BEGIN /\ t[3] \in {SUCCESS, ERROR} /\ t[4] = DATA
  /\ ~AtoiFails(t[5]) /\ Atoi(t[5]) >= 0
  /\ Len(t) = Atoi(t[5]) + 6
  /\ t[Len(t)] = END

\* the reply of the data transaction that is lines i..j of the wire
DataReply(i, j) ==
  [Command |-> wire[i + 1], Success |-> wire[i + 2] = SUCCESS,
   Data |-> SubSeq(wire, i + 5, j - 1)]

\* C4: the declared data length is honoured.  When the reader, in stateReceive at
\* its BEGIN, has consumed the END of a transaction with n data lines, it is
\* delivering the reply with exactly those n lines, or has delivered it and is
\* back in stateReceive.
C4_DataLengthHonoured ==
  \A i \in 1..pos :
    (IdleBefore(i) /\ IsDataTransaction(SubSeq(wire, i, pos)))
    => \/ readPc \in {"flush", "flushEnd"} /\ reader.reply = DataReply(i, pos)
       \/ readPc = "scan" /\ reader.state = stateReceive /\ gateReply = DataReply(i, pos)

\* an event line as the wire protocol frames it: four fields, a hexadecimal code
\* of at most 16 digits and a decimal repeat count
WellFormedEvent(line) ==
  LET w == Split(line)
  IN /\ Len(w) = 4
     /\ Len(w[1]) <= 16 /\ \A i \in DOMAIN w[1] : IsHexDigit(w[1][i])
     /\ w[2] # <<>> /\ \A i \in DOMAIN w[2] : IsDecDigit(w[2][i])

\* C5: malformed event lines are recoverable.  After a line that the reader was
\* given in stateReceive and that is neither BEGIN nor a well-formed event, the
\* read loop is running, hands over nothing, and the reader is in stateReceive.
C5_MalformedRecoverable ==
  (/\ pos >= 1 /\ IdleBefore(pos)
   /\ wire[pos] # BEGIN /\ ~WellFormedEvent(wire[pos]))
  => (readPc = "scan" /\ reader.state = stateReceive)

\* the ButtonPress of a well-formed event line
EventOf(line) ==
  LET w == Split(line)
  IN [Code |-> LittleEndianUint16(HexDecode(PadCode(w[1]))),
      RepeatCount |-> DecValue(w[2]),
      ButtonName |-> w[3], RemoteControlName |-> w[4]]

\* the wire protocol read line by line: where in a transaction the line after
\* these lines is (idle outside one), how many data lines are still to come, and
\* the events of the well-formed event lines outside transactions
RECURSIVE Framing(_)
Framing(lines) ==
  IF lines = <<>> THEN [at |-> "idle", left |-> 0, events |-> <<>>]
  ELSE LET f == Framing(SubSeq(lines, 1, Len(lines) - 1))
           line == lines[Len(lines)]
           to(at) == [f EXCEPT !.at = at]
       IN CASE f.at = "idle" ->
                 IF line = BEGIN THEN to("name")
                 ELSE IF WellFormedEvent(line)
                 THEN [f EXCEPT !.events = Append(f.events, EventOf(line))]
                 ELSE f
            [] f.at = "name" -> to("status")
            [] f.at = "status" ->
                 IF line \in {SUCCESS, ERROR} THEN to("dataStart") ELSE to("idle")
            [] f.at = "dataStart" -> IF line = DATA THEN to("length") ELSE to("idle")
            [] f.at = "length" ->
                 IF AtoiFails(line) \/ Atoi(line) < 0 THEN to("idle")
                 ELSE [f EXCEPT !.at = IF Atoi(line) = 0 THEN "end" ELSE "data",
                                !.left = Atoi(line)]
            [] f.at = "data" ->
                 [f EXCEPT !.at = IF f.left = 1 THEN "end" ELSE "data",
                           !.left = f.left - 1]
            [] OTHER -> to("idle")

\* C10: events are handed over in arrival order and, while the connection is not
\* cancelled, none is skipped.  The events received, with the one being handed
\* over, are the events of the well-formed event lines read so far.
C10_NoEventSkipped ==
  cause = "none"
  => received \o (IF readPc = "event" THEN <<event>> ELSE <<>>)
       = Framing(SubSeq(wire, 1, pos)).events

(***************************************************************************)
(* Properties of the order of replies and of submissions.                  *)
(***************************************************************************)
\* C11: replies reach callers in the order of acceptance.  The step that hands a
\* reply to a call hands it to the call whose command the dispatch loop accepted
\* and wrote last, and every call whose command was written earlier has returned;
\* a call whose command was written after another's holds no reply while the
\* other is still in SendCommand.
C11_RepliesInAcceptanceOrder ==
  /\ [][\A c \in Calls :
          (c \notin Handed /\ c \in Handed')
          => (/\ cmd = c /\ written # <<>> /\ written[Len(written)].call = c
              /\ \A i \in 1..(Len(written) - 1) : callPc[written[i].call] = "returned")]_vars
  /\ [](\A i, j \in DOMAIN written :
          (i < j /\ written[j].call \in Handed) => callPc[written[i].call] = "returned")

\* C11: two calls have each been handed a reply, in the order their commands were
\* written
C11_Witness ==
  /\ Len(written) = 2
  /\ written[1].call # written[2].call
  /\ written[1].call \in Handed /\ written[2].call \in Handed

\* C12: a reply that does not correlate is an error of the one caller.  The step
\* that hands a call a reply whose command name is not the first token of the
\* call's command returns that reply with the correlation error, whatever the
\* success flag; and every handoff, correlated or not, leaves the dispatch loop in
\* its select with sendingCh = r.send.
C12_MismatchIsCallerOnly ==
  [][\A c \in Calls :
       (c \notin Handed /\ c \in Handed')
       => (/\ gateReply.Command # EncodeCommand(callCmd[c])[1]
              => (/\ callRet'[c].reply = gateReply
                  /\ callRet'[c].err = ErrUnexpectedReply)
           /\ sendingCh' = "send" /\ writePc' = "select"
           /\ cause' = cause)]_vars

\* C12: a call has returned the correlation error with a reply whose success flag
\* is false, and the dispatch loop accepts commands again
C12_Witness ==
  \E c \in Calls :
    /\ c \in Handed /\ callRet[c].err = ErrUnexpectedReply
    /\ ~callRet[c].reply.Success
    /\ callRet[c].reply.Command # EncodeCommand(callCmd[c])[1]
    /\ sendingCh = "send" /\ writePc = "select"

\* C13: a submission that is cancelled is never transmitted.  A call that has
\* returned from its first select returned the error of its context with the
\* empty reply, the dispatch loop never received its command, and no line
\* written to the socket is its line.
C13_CancelledNeverWritten ==
  \A c \in Calls :
    (callPc[c] = "returned" /\ callRet[c].at = "submit")
    => (/\ callRet[c].err \in {Canceled, DeadlineExceeded}
        /\ callRet[c].reply = ZeroReply
        /\ cmd # c
        /\ c \notin Written)

\* C13: a call gave up at submission while the command of another call was in
\* flight, and a later line has been written since
C13_Witness ==
  \E c, d \in Calls :
    /\ callPc[c] = "returned" /\ callRet[c].at = "submit" /\ callRet[c].err = Canceled
    /\ d # c /\ d \in Written
    /\ sendingCh = "send" /\ writePc = "select" /\ d \in Handed

(***************************************************************************)
(* Properties of RepeatButton.                                             *)
(***************************************************************************)
\* the SendCommand calls made with a SendStop command
StopCalls == {c \in Calls : callPc[c] # "idle" /\ callCmd[c].type = "SendStop"}

\* C14: RepeatButton pairs start and stop.  Its SendCommand call carries SEND_START
\* with its remote and button; it has returned the callback exactly when that
\* call returned no error, and otherwise the call's error and no callback; the
\* SendCommand calls with SEND_STOP are as many as the invocations of the
\* callback, each for the same remote and button, and every SEND_STOP line on the
\* socket is the line of one of them.
C14_StartStopPaired ==
  LET remote == repeatButton.remote
      button == repeatButton.button
  IN /\ repeatButton.pc # "idle"
        => (/\ callPc[1] # "idle"
            /\ EncodeCommand(callCmd[1]) = <<SEND_START, remote, button>>)
     /\ repeatButton.pc = "returned"
        => (/\ repeatButton.stop = "func" <=> callRet[1].err = ErrNil
            /\ repeatButton.err = callRet[1].err)
     /\ repeatButton.pc # "returned" => repeatButton.stop = "nil"
     /\ Cardinality(StopCalls) = repeatButton.invoked
     /\ StopCalls # {} => repeatButton.stop = "func"
     /\ \A c \in StopCalls : EncodeCommand(callCmd[c]) = <<SEND_STOP, remote, button>>
     /\ \A i \in DOMAIN written :
          /\ written[i].call = 1
             => written[i].line = Join(<<SEND_START, remote, button>>) \o <<"\n">>
          /\ Split(Echo(written[i].line))[1] = SEND_STOP
             => (/\ written[i].call \in StopCalls
                 /\ written[i].line = Join(<<SEND_STOP, remote, button>>) \o <<"\n">>)

\* C14: RepeatButton returned its callback, the callback was invoked once, and the
\* SEND_STOP line is on the socket after the SEND_START line
C14_Witness ==
  /\ repeatButton.pc = "returned" /\ repeatButton.stop = "func"
  /\ repeatButton.invoked = 1
  /\ Len(written) = 2
  /\ Split(Echo(written[1].line))[1] = SEND_START
  /\ Split(Echo(written[2].line))[1] = SEND_STOP

(***************************************************************************)
(* Properties of the reader: events.                                       *)
(***************************************************************************)
\* the event line of scenario C, character by character
ScenarioCLine ==
  <<"0", "0", "0", "0", "0", "0", "0", "0", "0", "0", "0", "0", "0", "0", "2", "a",
    " ", "0", " ", "K", "E", "Y", "_", "P", "O", "W", "E", "R",
    " ", "T", "e", "l", "e", "v", "i", "s", "i", "o", "n">>

\* the 16 hexadecimal digits of a code, zeros first
Padded16(code) == [i \in 1..16 |-> IF i <= 16 - Len(code) THEN "0"
                                   ELSE code[i - (16 - Len(code))]]

\* the value of the two hexadecimal digits at i and i + 1
ByteAt(digits, i) == 16 * HexVal(digits[i]) + HexVal(digits[i + 1])

\* C15: event decoding.  The ButtonPress being handed over for a well-formed event
\* line has the line's second token as its repeat count, the third as its button
\* name, the fourth as its remote control name, and as its code the first byte of
\* the zero-padded code plus 256 times the second; the line of scenario C gives
\* code 0, repeat 0, KEY_POWER, Television.
C15_EventDecoding ==
  (readPc = "event" /\ WellFormedEvent(wire[pos]))
  => LET w == Split(wire[pos])
         digits == Padded16(w[1])
     IN /\ event.RepeatCount = DecValue(w[2])
        /\ event.ButtonName = w[3]
        /\ event.RemoteControlName = w[4]
        /\ event.Code = ByteAt(digits, 1) + 256 * ByteAt(digits, 3)
        /\ wire[pos] = ScenarioCLine
           => event = [Code |-> 0, RepeatCount |-> 0, ButtonName |-> KEY_POWER,
                       RemoteControlName |-> Television]

\* C15: the event of a line whose code has non-zero leading bytes is being handed
\* over
C15_Witness ==
  /\ readPc = "event" /\ wire[pos] = LeadingCodeLine
  /\ event.Code = 298 /\ event.RepeatCount = 12

(***************************************************************************)
(* Properties of the reader: protocol errors inside a transaction.         *)
(***************************************************************************)
\* the reader's state when it was given line i of the wire
StateBefore(i) == ReaderAfter(SubSeq(wire, 1, i - 1)).state

\* a line that is a non-negative decimal integer
NonNegativeDecimal(line) == line # <<>> /\ \A i \in DOMAIN line : IsDecDigit(line[i])

\* C16: a data-length line that is no non-negative decimal integer is a recoverable
\* protocol error.  After such a line, given to the reader in stateDataLength, the
\* read loop is running, hands over nothing, and the reader is in stateReceive.
C16_BadDataLengthRecoverable ==
  (/\ pos >= 1 /\ StateBefore(pos) = stateDataLength
   /\ ~NonNegativeDecimal(wire[pos]))
  => (readPc = "scan" /\ reader.state = stateReceive)

\* line i is no marker and the reader was in a state that requires one
UnexpectedMarker(i) ==
  \/ StateBefore(i) = stateStatus /\ wire[i] \notin {SUCCESS, ERROR, END}
  \/ StateBefore(i) = stateDataStart /\ wire[i] \notin {DATA, END}
  \/ StateBefore(i) = stateDataEnd /\ wire[i] # END

\* a transaction without data as the wire protocol frames it
IsPlainTransaction(t) ==
  /\ Len(t) \in {3, 4}
  /\ t[1] = BEGIN /\ t[Len(t)] = END
  /\ Len(t) = 4 => t[3] \in {SUCCESS, ERROR}

\* the reply of a well-formed transaction
ReplyOf(t) ==
  [Command |-> t[2],
   Success |-> ~(Len(t) >= 4 /\ t[3] = ERROR),
   Data |-> IF IsDataTransaction(t) THEN SubSeq(t, 6, Len(t) - 1) ELSE <<>>]

\* the reader is handing the reply over, or has handed it over and is back in
\* stateReceive
Delivering(reply) ==
  \/ readPc \in {"flush", "flushEnd"} /\ reader.reply = reply
  \/ readPc = "scan" /\ reader.state = stateReceive /\ gateReply = reply

\* C17: an unexpected marker discards the reply.  After a line that is no marker,
\* given to the reader in stateStatus, stateDataStart or stateDataEnd, the read
\* loop is running, hands over nothing, and the reader is in stateReceive; the well-formed transaction that
\* follows is delivered as its own lines say, and the well-formed event line that
\* follows is handed over as decoded from its own tokens.
C17_UnexpectedMarkerDiscards ==
  /\ (pos >= 1 /\ UnexpectedMarker(pos))
     => (readPc = "scan" /\ reader.state = stateReceive)
  /\ \A i \in 2..pos :
       (/\ UnexpectedMarker(i - 1)
        /\ \/ IsPlainTransaction(SubSeq(wire, i, pos))
           \/ IsDataTransaction(SubSeq(wire, i, pos)))
       => Delivering(ReplyOf(SubSeq(wire, i, pos)))
  /\ (pos >= 2 /\ UnexpectedMarker(pos - 1) /\ WellFormedEvent(wire[pos]))
     => \/ readPc = "event" /\ event = EventOf(wire[pos])
        \/ readPc = "scan" /\ received # <<>>
           /\ received[Len(received)] = EventOf(wire[pos])

\* C18: transactions without data.  When the reader, in stateReceive at its BEGIN,
\* has consumed the END of BEGIN, name, END or of BEGIN, name, SUCCESS or ERROR,
\* END, it is handing over the reply with that name, success unless the status
\* was ERROR, and no data, or has handed it over, with the reader in
\* stateReceive; a reply is handed over on an END line only; and BEGIN leaves the
\* zero reply and zero counts.
C18_PlainTransactions ==
  /\ \A i \in 1..pos :
       (IdleBefore(i) /\ IsPlainTransaction(SubSeq(wire, i, pos)))
       => (/\ Delivering(ReplyOf(SubSeq(wire, i, pos)))
           /\ reader.state = stateReceive
           /\ reader.reply.Data = <<>>)
  /\ readPc \in {"flush", "flushEnd"} => wire[pos] = END
  /\ (pos >= 1 /\ IdleBefore(pos) /\ wire[pos] = BEGIN)
     => (/\ reader.state = stateReply /\ reader.reply = ZeroReply
         /\ reader.dataCount = 0 /\ reader.dataLength = 0)

\* C18: the reader is handing over the reply of a transaction that ended right
\* after its ERROR status
C18_Witness ==
  /\ readPc = "flush" /\ wire[pos] = END /\ wire[pos - 1] = ERROR
  /\ reader.reply = [Command |-> Join(<<LIST, DenonTuner>>), Success |-> FALSE,
                     Data |-> <<>>]

(***************************************************************************)
(* Properties of Start and its loops.                                      *)
(***************************************************************************)
\* C19: Start joins its loops.  When Start has returned after a successful dial
\* both loops have exited, also when Close failed; and once Start has returned no
\* step reads a line, writes a line, hands over an event or a reply, or changes
\* the reader or the dispatch loop.
C19_StartJoinsLoops ==
  /\ []((startPc = "returned" /\ conn # "none")
        => (readPc = "done" /\ writePc = "done"))
  /\ [][startPc = "returned"
        => (/\ UNCHANGED <<reader, readPc, event, pos>>
            /\ UNCHANGED <<sendingCh, writePc, cmd, gateReply, written>>
            /\ received' = received /\ Handed' = Handed)]_vars

\* C19: Start has returned the error of Close, and both loops have exited
C19_Witness ==
  /\ startPc = "returned" /\ closeErr = CloseError /\ startRet = CloseError
  /\ readPc = "done" /\ writePc = "done"
  /\ pos >= 1 /\ written # <<>>

\* C20: head-of-line blocking.  While the read loop is handing an event to Events
\* and the context is not done, no step reads a further line, changes the reader
\* or gives the dispatch loop a reply; the read loop leaves the handoff only with
\* the event received by the consumer.
C20_HeadOfLineBlocking ==
  [][(readPc = "event" /\ cause = "none")
     => (/\ pos' = pos /\ reader' = reader /\ gateReply' = gateReply
         /\ \/ readPc' = "event" /\ event' = event /\ received' = received
            \/ readPc' = "scan" /\ received' = Append(received, event))]_vars

\* C20: an event waits for its consumer while the reply to the command of a call
\* that awaits it is on the wire behind the event
C20_Witness ==
  /\ readPc = "event" /\ cause = "none"
  /\ pos < Len(wire) /\ wire[pos + 1] = BEGIN
  /\ answered = Len(written)
  /\ \E c \in Calls : callPc[c] = "await" /\ c \in Written

(***************************************************************************)
(* Properties of SendCommand on a connection that is not running.          *)
(***************************************************************************)
\* C21: SendCommand observes its caller's context only.  While Start has not
\* dialed, or has returned (after a failed dial or after its loops), no step
\* accepts or writes a command or hands a reply to a call, and a call that leaves
\* SendCommand returns the empty reply with the error of its own context; and
\* once Start has returned it stays returned.
C21_CallerContextOnly ==
  /\ [][(startPc = "dial" \/ startPc = "returned") =>
          /\ written' = written
          /\ cmd' = cmd
          /\ Handed' = Handed
          /\ \A c \in Calls :
               /\ callPc[c] = "submit" => callPc'[c] \in {"submit", "returned"}
               /\ callPc[c] = "await" => callPc'[c] \in {"await", "returned"}
               /\ (callPc[c] # "returned" /\ callPc'[c] = "returned") =>
                     /\ callRet'[c].reply = ZeroReply
                     /\ callRet'[c].err \in {Canceled, DeadlineExceeded}
     ]_vars
  /\ [][startPc = "returned" => startPc' = "returned"]_vars

\* C21: on a connection whose dial failed one call has returned the error of its
\* context from its submission and another is blocked in its submission
C21_Witness ==
  /\ startPc = "returned" /\ conn = "none" /\ startRet = DialError
  /\ written = <<>>
  /\ \E c, d \in Calls :
       /\ callPc[c] = "returned" /\ callRet[c].at = "submit" /\ callRet[c].err = Canceled
       /\ callPc[d] = "submit"

====
